---- MODULE Spec2Model ----
(***************************************************************************)
(* Four-part voicing of chord progressions (voicing.py).                   *)
(*                                                                         *)
(* The module models the four public computations of voicing.py:           *)
(*   voiceNote        - the octaves of a note name inside a pitch range    *)
(*   voiceChord       - the generator of four-part voicings of a chord     *)
(*   cost             - the voice-leading cost of a transition             *)
(*   voiceProgression - the dynamic program over a chord progression       *)
(* Each has its own specification (SpecNote, SpecChord, SpecCost,          *)
(* SpecProg) over the shared variables; the variables a specification      *)
(* does not use stay None.                                                 *)
(*                                                                         *)
(* music21 values are modelled by what the library computes:               *)
(*   Pitch  = [step, alter, octave]; step 0..6 is the letter C..B,         *)
(*            alter the accidental in semitones.  A pitch name is          *)
(*            [step, alter].                                               *)
(*   Chord  = the tuple of its pitches, in the chord's stored order.       *)
(***************************************************************************)
EXTENDS Integers, Sequences, FiniteSets, TLC

VARIABLES
    pc,               \* position of the call in progress
    noteName,         \* voiceNote: argument
    pitchRange,       \* voiceNote: argument <<low, high>>
    notes,            \* voiceNote: the pitches yielded, in order
    chord,            \* voiceChord: argument (a RomanNumeral)
    yielded,          \* voiceChord: the voicings yielded so far, in order
    key,              \* cost / voiceProgression: the key
    chord1,           \* cost: argument
    chord2,           \* cost: argument
    terms,            \* cost: what each rule added to score
    score,            \* cost: return value
    chordProgression, \* voiceProgression: argument (a list of numerals)
    i,                \* voiceProgression: loop index (0-based, as in the code)
    dp,               \* voiceProgression: dp[i+1] is the code's dict dp[i]
    cur,              \* voiceProgression: backtrace cursor
    totalCost,        \* voiceProgression: the cost printed
    ret,              \* voiceProgression: ret list / return value
    err               \* voiceProgression: the exception raised, or None

noteVars == <<noteName, pitchRange, notes>>
chordVars == <<chord, yielded>>
costVars == <<chord1, chord2, terms, score>>
progVars == <<chordProgression, i, dp, cur, totalCost, ret, err>>
vars == <<pc, noteVars, chordVars, key, costVars, progVars>>

None == "None"

(***************************************************************************)
(* music21.pitch.Pitch                                                     *)
(***************************************************************************)

\* Semitones of the letters C D E F G A B above C.
StepPs == <<0, 2, 4, 5, 7, 9, 11>>

\* Pitch(noteName + str(octave)): the octave number belongs to the letter,
\* so B#3 sounds as C4 and C-4 as B3.
Pitch(name, octave) == [step |-> name.step, alter |-> name.alter, octave |-> octave]

Name(p) == [step |-> p.step, alter |-> p.alter]

\* Pitch.ps / Pitch.midi: the height in semitones (C4 = 60).
midi(p) == 12 * (p.octave + 1) + StepPs[p.step + 1] + p.alter

\* Pitch.diatonicNoteNum: the height in staff positions.
diatonicNoteNum(p) == 7 * p.octave + p.step + 1

\* Pitch.__lt__ compares heights; Pitch.__eq__ compares spelling and octave;
\* Pitch.__le__ is "__lt__ or __eq__", so two enharmonic pitches of the same
\* height are not <= each other.
PitchLT(a, b) == midi(a) < midi(b)
PitchLE(a, b) == PitchLT(a, b) \/ a = b

\* max((a, b)) and min((a, b)) of Python: the first of equal-ranking items.
PitchMax(a, b) == IF PitchLT(a, b) THEN b ELSE a
PitchMin(a, b) == IF PitchLT(b, a) THEN b ELSE a

\* p.transpose('-P8')
TransposeDownP8(p) == [p EXCEPT !.octave = p.octave - 1]

C == [step |-> 0, alter |-> 0]
F == [step |-> 3, alter |-> 0]
G == [step |-> 4, alter |-> 0]

SOPRANO_RANGE == <<Pitch(C, 4), Pitch(G, 5)>>
ALTO_RANGE == <<Pitch(G, 3), Pitch(C, 5)>>
TENOR_RANGE == <<Pitch(C, 3), Pitch(G, 4)>>
BASS_RANGE == <<Pitch(F, 2), Pitch(C, 4)>>

(***************************************************************************)
(* voiceNote                                                               *)
(***************************************************************************)

\* The test of line 23 on the pitch n.
InPitchRange(n, range) == PitchLE(range[1], n) /\ PitchLE(n, range[2])

RECURSIVE voiceNoteFrom(_, _, _)
voiceNoteFrom(name, range, octave) ==
    IF octave > range[2].octave THEN <<>>
    ELSE LET n == Pitch(name, octave)
         IN  (IF InPitchRange(n, range) THEN <<n>> ELSE <<>>)
                 \o voiceNoteFrom(name, range, octave + 1)

\* The pitches the generator yields, in order.
voiceNote(name, range) == voiceNoteFrom(name, range, range[1].octave)


(***************************************************************************)
(* music21.key.Key and music21.roman.RomanNumeral, for major keys and      *)
(* diatonic numerals                                                       *)
(***************************************************************************)

\* Semitones of the degrees 1..7 of a major scale above the tonic.
MajorPs == <<0, 2, 4, 5, 7, 9, 11>>

\* Key(key): the tonic's name.
KeyTonic(k) ==
    CASE k = "C" -> [step |-> 0, alter |-> 0]
      [] k = "G" -> [step |-> 4, alter |-> 0]
      [] k = "C#" -> [step |-> 0, alter |-> 1]
      [] k = "G-" -> [step |-> 4, alter |-> -1]

\* The name of degree d (1, 2, ...; 8 is 1 again) of the key's scale.
ScaleName(k, d) ==
    LET t == KeyTonic(k)
        n == (d - 1) % 7
        st == (t.step + n) % 7
        up == (StepPs[st + 1] - StepPs[t.step + 1]) % 12
    IN  [step |-> st, alter |-> t.alter + MajorPs[n + 1] - up]

getTonic(k) == ScaleName(k, 1)
getDominant(k) == ScaleName(k, 5)

\* The figure of a numeral: scale degree of the root, number of chord
\* members, inversion, and the numeral without its figures.
NumeralInfo(numeral) ==
    CASE numeral = "I" -> [degree |-> 1, size |-> 3, inversion |-> 0, rn |-> "I"]
      [] numeral = "I6" -> [degree |-> 1, size |-> 3, inversion |-> 1, rn |-> "I"]
      [] numeral = "I64" -> [degree |-> 1, size |-> 3, inversion |-> 2, rn |-> "I"]
      [] numeral = "ii" -> [degree |-> 2, size |-> 3, inversion |-> 0, rn |-> "ii"]
      [] numeral = "IV" -> [degree |-> 4, size |-> 3, inversion |-> 0, rn |-> "IV"]
      [] numeral = "V" -> [degree |-> 5, size |-> 3, inversion |-> 0, rn |-> "V"]
      [] numeral = "V6" -> [degree |-> 5, size |-> 3, inversion |-> 1, rn |-> "V"]
      [] numeral = "V64" -> [degree |-> 5, size |-> 3, inversion |-> 2, rn |-> "V"]
      [] numeral = "V7" -> [degree |-> 5, size |-> 4, inversion |-> 0, rn |-> "V"]
      [] numeral = "V65" -> [degree |-> 5, size |-> 4, inversion |-> 1, rn |-> "V"]
      [] numeral = "V43" -> [degree |-> 5, size |-> 4, inversion |-> 2, rn |-> "V"]
      [] numeral = "V42" -> [degree |-> 5, size |-> 4, inversion |-> 3, rn |-> "V"]

\* RomanNumeral(numeral, key): the chord voiceChord reads.  pitchNames are
\* the names of chord.pitches, the bass first.
RomanNumeral(numeral, k) ==
    LET f == NumeralInfo(numeral)
        member(m) == ScaleName(k, f.degree + 2 * m)
    IN  [pitchNames |-> [j \in 1..f.size |-> member((f.inversion + j - 1) % f.size)],
         containsSeventh |-> (f.size = 4),
         inversion |-> f.inversion,
         root |-> member(0),
         third |-> member(1),
         fifth |-> member(2),
         romanNumeral |-> f.rn]

(***************************************************************************)
(* music21.chord.Chord                                                     *)
(***************************************************************************)

\* interval.getWrittenLowerNote: the pitch lower on the staff; the lower
\* sounding one of two on the same staff position, the first on a tie.
WrittenLower(a, b) ==
    IF diatonicNoteNum(a) < diatonicNoteNum(b) THEN a
    ELSE IF diatonicNoteNum(b) < diatonicNoteNum(a) THEN b
    ELSE IF midi(b) < midi(a) THEN b ELSE a

RECURSIVE LowestFrom(_, _)
LowestFrom(lowest, ps) ==
    IF ps = <<>> THEN lowest
    ELSE LowestFrom(WrittenLower(lowest, Head(ps)), Tail(ps))

\* Chord.bass(): the lowest written pitch of the chord.
ChordBass(c) == LowestFrom(Head(c), Tail(c))

\* The sort key of Chord.sortAscending: (diatonicNoteNum, ps).
SortsBefore(a, b) ==
    \/ diatonicNoteNum(a) < diatonicNoteNum(b)
    \/ diatonicNoteNum(a) = diatonicNoteNum(b) /\ midi(a) < midi(b)

\* Insert p into the sorted tuple c behind every pitch that does not sort
\* after it (the sort is stable and p was appended last).
RECURSIVE InsertSorted(_, _)
InsertSorted(c, p) ==
    IF c = <<>> THEN <<p>>
    ELSE IF SortsBefore(p, Head(c)) THEN <<p>> \o c
    ELSE <<Head(c)>> \o InsertSorted(Tail(c), p)

RECURSIVE SortAscending(_)
SortAscending(c) ==
    IF c = <<>> THEN <<>>
    ELSE InsertSorted(SortAscending(SubSeq(c, 1, Len(c) - 1)), c[Len(c)])

\* Chord.add(note): append, then sortAscending.
ChordAdd(c, p) == SortAscending(Append(c, p))

(***************************************************************************)
(* _voiceTriadUnordered, _voiceChord, voiceChord                           *)
(***************************************************************************)

\* The sequences ss[1], ss[2], ... joined in order: what a for loop yields
\* whose k-th iteration yields the items of ss[k].
RECURSIVE FlattenFrom(_, _, _)
FlattenFrom(ss, k, n) ==
    IF k > n THEN <<>> ELSE ss[k] \o FlattenFrom(ss, k + 1, n)

Flatten(ss) == FlattenFrom(ss, 1, Len(ss))

\* itertools.permutations(noteNames, 3) of a list of 3, in its order.
Permutations3(n) ==
    << <<n[1], n[2], n[3]>>, <<n[1], n[3], n[2]>>, <<n[2], n[1], n[3]>>,
       <<n[2], n[3], n[1]>>, <<n[3], n[1], n[2]>>, <<n[3], n[2], n[1]>> >>

\* Faulty variant of altoRange: the alto may be more than an octave below
\* the soprano.
altoRangeWithoutOctave(sopranoNote) ==
    <<ALTO_RANGE[1], PitchMin(ALTO_RANGE[2], sopranoNote)>>

altoRange(sopranoNote) ==
    <<PitchMax(ALTO_RANGE[1], TransposeDownP8(sopranoNote)),
      PitchMin(ALTO_RANGE[2], sopranoNote)>>

tenorRange(altoNote) ==
    <<PitchMax(TENOR_RANGE[1], TransposeDownP8(altoNote)),
      PitchMin(TENOR_RANGE[2], altoNote)>>

\* The chords Chord([tenorNote, altoNote, sopranoNote]) in the order yielded.
voiceTriadUnordered(noteNames) ==
    LET perm(p) ==
          LET tenor == p[1]
              alto == p[2]
              soprano == p[3]
              forSoprano(sopranoNote) ==
                LET forAlto(altoNote) ==
                      LET forTenor(tenorNote) ==
                            << <<tenorNote, altoNote, sopranoNote>> >>
                          tenors == voiceNote(tenor, tenorRange(altoNote))
                      IN  Flatten([t \in 1..Len(tenors) |-> forTenor(tenors[t])])
                    altos == voiceNote(alto, altoRange(sopranoNote))
                IN  Flatten([a \in 1..Len(altos) |-> forAlto(altos[a])])
              sopranos == voiceNote(soprano, SOPRANO_RANGE)
          IN  Flatten([s \in 1..Len(sopranos) |-> forSoprano(sopranos[s])])
        perms == Permutations3(noteNames)
    IN  Flatten([n \in 1..Len(perms) |-> perm(perms[n])])

\* Faulty variant of BassFits: every octave of the bass is taken.
BassFitsAlways(bassNote, triad) == TRUE

\* The test of line 45.
BassFits(bassNote, triad) == PitchLE(bassNote, ChordBass(triad))

\* _voiceChord(noteNames): noteNames[0] is the bass.
voiceChord4(noteNames) ==
    LET bass == Head(noteNames)
        forChord(triad) ==
          LET forBass(bassNote) ==
                IF BassFits(bassNote, triad)
                THEN << ChordAdd(triad, bassNote) >>
                ELSE <<>>
              basses == voiceNote(bass, BASS_RANGE)
          IN  Flatten([b \in 1..Len(basses) |-> forBass(basses[b])])
        triads == voiceTriadUnordered(Tail(noteNames))
    IN  Flatten([t \in 1..Len(triads) |-> forChord(triads[t])])

\* The doublings of lines 59-74: the lists of names passed to _voiceChord.
Doublings(c) ==
    IF c.containsSeventh THEN <<c.pitchNames>>
    ELSE IF c.inversion = 2 THEN <<Append(c.pitchNames, c.pitchNames[1])>>
    ELSE <<Append(c.pitchNames, c.root),
           Append(c.pitchNames, c.third),
           Append(c.pitchNames, c.fifth)>>
         \o (IF c.romanNumeral = "I" /\ c.inversion = 0
             THEN << <<c.root, c.root, c.root, c.third>> >>
             ELSE <<>>)

\* voiceChord(chord): the voicings in the order yielded.
voiceChord(c) ==
    LET doublings == Doublings(c)
    IN  Flatten([d \in 1..Len(doublings) |-> voiceChord4(doublings[d])])

(***************************************************************************)
(* Chord.root(), Chord.third, Chord.seventh                                *)
(***************************************************************************)

\* An optional value is <<>> (Python's None) or <<value>>.
Nothing == <<>>
Some(x) == <<x>>
Value(opt) == opt[1]

\* Chord.getChordStep(chordStep, testRoot=testRoot): the first pitch of the
\* chord that many staff steps (counted from 1, modulo the octave) above
\* testRoot, or None.
RECURSIVE getChordStepFrom(_, _, _, _)
getChordStepFrom(c, chordStep, testRoot, k) ==
    IF k > Len(c) THEN Nothing
    ELSE IF ((diatonicNoteNum(c[k]) - diatonicNoteNum(testRoot)) % 7) + 1 = chordStep
         THEN Some(c[k])
    ELSE getChordStepFrom(c, chordStep, testRoot, k + 1)

getChordStep(c, chordStep, testRoot) == getChordStepFrom(c, chordStep, testRoot, 1)

\* The rootness of the pitch p of c: a third above p (some pitch of c two
\* staff steps above it, modulo the octave) counts 1/6, a fifth 1/7, a
\* seventh 1/8, a 9th 1/9, an 11th 1/10, a 13th 1/11 (here times 27720).
Rootness(c, p) ==
    LET above == {(diatonicNoteNum(c[k]) - diatonicNoteNum(p)) % 7 : k \in 1..Len(c)}
    IN  (IF 2 \in above THEN 4620 ELSE 0) + (IF 4 \in above THEN 3960 ELSE 0)
          + (IF 6 \in above THEN 3465 ELSE 0) + (IF 1 \in above THEN 3080 ELSE 0)
          + (IF 3 \in above THEN 2772 ELSE 0) + (IF 5 \in above THEN 2520 ELSE 0)

RECURSIVE RootnessFrom(_, _)
RootnessFrom(c, k) ==
    IF k > Len(c) THEN <<>> ELSE <<Rootness(c, c[k])>> \o RootnessFrom(c, k + 1)

RECURSIVE FirstMaxFrom(_, _, _)
FirstMaxFrom(scores, best, k) ==
    IF k > Len(scores) THEN best
    ELSE IF scores[k] > scores[best] THEN FirstMaxFrom(scores, k, k + 1)
    ELSE FirstMaxFrom(scores, best, k + 1)

\* Chord.root(): the first pitch with the most thirds stacked above it.
ChordRoot(c) == c[FirstMaxFrom(RootnessFrom(c, 1), 1, 2)]

ChordThird(c) == getChordStep(c, 3, ChordRoot(c))
ChordSeventh(c) == getChordStep(c, 7, ChordRoot(c))

\* chord.pitches.index(p), for a pitch p of the chord.
RECURSIVE IndexFrom(_, _, _)
IndexFrom(c, p, k) == IF c[k] = p THEN k - 1 ELSE IndexFrom(c, p, k + 1)

PitchIndex(c, p) == IndexFrom(c, p, 1)

(***************************************************************************)
(* cost                                                                    *)
(***************************************************************************)

Abs(x) == IF x < 0 THEN 0 - x ELSE x

\* chord[k] > other[m] and chord[k] < other[m] compare the heights of the
\* k-th and m-th notes (k, m from 0).
NoteGT(c, k, d, m) == midi(c[k + 1]) > midi(d[m + 1])
NoteLT(c, k, d, m) == midi(c[k + 1]) < midi(d[m + 1])

\* Faulty variant of Overlapping: the voices counted from the top.
OverlappingFromTheTop(c1, c2) ==
    \/ NoteGT(c2, 3, c1, 2)
    \/ NoteLT(c2, 2, c1, 3) \/ NoteGT(c2, 2, c1, 1)
    \/ NoteLT(c2, 1, c1, 2) \/ NoteGT(c2, 1, c1, 0)
    \/ NoteLT(c2, 0, c1, 1)

\* The test of lines 82-85.
Overlapping(c1, c2) ==
    \/ NoteGT(c2, 0, c1, 1)
    \/ NoteLT(c2, 1, c1, 0) \/ NoteGT(c2, 1, c1, 2)
    \/ NoteLT(c2, 2, c1, 1) \/ NoteGT(c2, 2, c1, 3)
    \/ NoteLT(c2, 3, c1, 2)

OverlapTerm(c1, c2) == IF Overlapping(c1, c2) THEN 50 ELSE 0

\* Lines 89-92: the leap of voice k (from 0).
Leap(c1, c2, k) == Abs(midi(c1[k + 1]) - midi(c2[k + 1]))

LeapTerm(c1, c2) ==
    (Leap(c1, c2, 0) \div 2) * (Leap(c1, c2, 0) \div 2)
      + Leap(c1, c2, 1) * Leap(c1, c2, 1)
      + Leap(c1, c2, 2) * Leap(c1, c2, 2)
      + (Leap(c1, c2, 3) * Leap(c1, c2, 3)) \div 10

\* The pairs (i, j) of lines 95-96, in loop order.
VoicePairs == << <<0, 1>>, <<0, 2>>, <<0, 3>>, <<1, 2>>, <<1, 3>>, <<2, 3>> >>

\* i1 and i2 of line 99 for the pair pr.
Interval1(c1, pr) == midi(c1[pr[2] + 1]) - midi(c1[pr[1] + 1])
Interval2(c2, pr) == midi(c2[pr[2] + 1]) - midi(c2[pr[1] + 1])

\* Line 100.
ParallelFifth(c1, c2, pr) ==
    Interval1(c1, pr) % 12 = Interval2(c2, pr) % 12 /\ Interval2(c2, pr) % 12 = 7

\* Line 102.
ParallelOctave(c1, c2, pr) ==
    Interval1(c1, pr) % 12 = Interval2(c2, pr) % 12 /\ Interval2(c2, pr) % 12 = 0

\* Line 104.
NotContrary(c1, c2, pr) ==
    LET t1 == midi(c1[pr[2] + 1])
        t2 == midi(c2[pr[2] + 1])
        b1 == midi(c1[pr[1] + 1])
        b2 == midi(c2[pr[1] + 1])
    IN  (t2 > t1 /\ b2 > b1) \/ (t2 < t1 /\ b2 < b1)

\* What the loop of lines 95-105 adds: amount for each pair of voices
\* flagged in tests.
PairSum(tests, amount) == amount * Cardinality({k \in 1..Len(VoicePairs) : tests[k]})

FifthsTerm(c1, c2) ==
    PairSum([k \in 1..Len(VoicePairs) |-> ParallelFifth(c1, c2, VoicePairs[k])], 60)

OctavesTerm(c1, c2) ==
    PairSum([k \in 1..Len(VoicePairs) |-> ParallelOctave(c1, c2, VoicePairs[k])], 100)

SimilarTerm(c1, c2) ==
    PairSum([k \in 1..Len(VoicePairs) |-> NotContrary(c1, c2, VoicePairs[k])], 1)

\* Line 111, for the motion delta of the voice that has the seventh.
SeventhUnresolved(delta) == delta < -2 \/ delta > 0

\* Lines 108-112.
SeventhTerm(c1, c2) ==
    LET seventh == ChordSeventh(c1)
    IN  IF seventh = Nothing THEN 0
        ELSE LET seventhVoice == PitchIndex(c1, Value(seventh))
                 delta == midi(c2[seventhVoice + 1]) - midi(Value(seventh))
             IN  IF SeventhUnresolved(delta) THEN 80 ELSE 0

\* Lines 115-116.
DominantToTonic(k, c1, c2) ==
    /\ Name(ChordRoot(c1)) = getDominant(k)
    /\ Name(ChordRoot(c2)) = getTonic(k)

\* Line 117: the voice (from 0) that has chord1.third.
ThirdVoice(c1) == PitchIndex(c1, Value(ChordThird(c1)))

\* Line 118.
ThirdDelta(c1, c2) == midi(c2[ThirdVoice(c1) + 1]) - midi(c1[ThirdVoice(c1) + 1])

\* Faulty variant of LeadingToneUnresolved: the fall is refused in the bass.
LeadingToneUnresolvedInBass(delta, voice) == delta # 1 /\ (delta # -4 \/ voice = 0)

\* Line 119, for the motion delta of the voice (from 0) that has the third.
LeadingToneUnresolved(delta, voice) == delta # 1 /\ (delta # -4 \/ voice = 3)

\* Lines 115-120.
LeadingToneTerm(k, c1, c2) ==
    IF DominantToTonic(k, c1, c2)
    THEN LET voice == ThirdVoice(c1)
             delta == midi(c2[voice + 1]) - midi(c1[voice + 1])
         IN  IF LeadingToneUnresolved(delta, voice) THEN 80 ELSE 0
    ELSE 0

\* What each rule of cost adds to score.
CostTerms(k, c1, c2) ==
    [overlap |-> OverlapTerm(c1, c2),
     leap |-> LeapTerm(c1, c2),
     fifths |-> FifthsTerm(c1, c2),
     octaves |-> OctavesTerm(c1, c2),
     similar |-> SimilarTerm(c1, c2),
     seventh |-> SeventhTerm(c1, c2),
     leadingTone |-> LeadingToneTerm(k, c1, c2)]

SumTerms(t) ==
    t.overlap + t.leap + t.fifths + t.octaves + t.similar + t.seventh + t.leadingTone

\* cost(key, chord1, chord2)
cost(k, c1, c2) == SumTerms(CostTerms(k, c1, c2))

(***************************************************************************)
(* Inputs                                                                  *)
(***************************************************************************)

\* Accidentals of the note names tried range over -MaxAlter..MaxAlter.
MaxAlter == 1

NoteNames == {[step |-> st, alter |-> al] : st \in 0..6, al \in (0 - MaxAlter)..MaxAlter}

\* Range bounds tried: the natural pitches of the octaves the four voice
\* ranges touch.
RangePitches == {[step |-> st, alter |-> 0, octave |-> o] : st \in 0..6, o \in 2..5}

Keys == {"C", "G", "C#", "G-"}

Numerals == {"I", "I6", "I64", "ii", "IV", "V", "V6", "V64", "V7", "V65", "V43", "V42"}

(***************************************************************************)
(* SpecNote: one call of voiceNote                                         *)
(***************************************************************************)

InitNote ==
    /\ pc = "voiceNote"
    /\ noteName \in NoteNames
    /\ pitchRange \in {r \in RangePitches \X RangePitches : midi(r[1]) <= midi(r[2])}
    /\ notes = <<>>
    /\ chord = None /\ yielded = None /\ key = None
    /\ chord1 = None /\ chord2 = None /\ terms = None /\ score = None
    /\ chordProgression = None /\ i = None /\ dp = None /\ cur = None
    /\ totalCost = None /\ ret = None /\ err = None

\* list(voiceNote(noteName, pitchRange))
VoiceNoteCall ==
    /\ pc = "voiceNote"
    /\ notes' = voiceNote(noteName, pitchRange)
    /\ pc' = "done"
    /\ UNCHANGED <<noteName, pitchRange, chordVars, key, costVars, progVars>>

NextNote == VoiceNoteCall

SpecNote == InitNote /\ [][NextNote]_vars

(***************************************************************************)
(* SpecChord: the generator voiceChord(RomanNumeral(numeral, key)),        *)
(* consumed one voicing at a time                                          *)
(***************************************************************************)

InitChord ==
    /\ pc = "voiceChord"
    /\ key \in Keys
    /\ \E numeral \in Numerals : chord = RomanNumeral(numeral, key)
    /\ yielded = <<>>
    /\ noteName = None /\ pitchRange = None /\ notes = None
    /\ chord1 = None /\ chord2 = None /\ terms = None /\ score = None
    /\ chordProgression = None /\ i = None /\ dp = None /\ cur = None
    /\ totalCost = None /\ ret = None /\ err = None

\* next(voicings): the generator yields its next voicing.
Yield ==
    /\ pc = "voiceChord"
    /\ Len(yielded) < Len(voiceChord(chord))
    /\ yielded' = Append(yielded, voiceChord(chord)[Len(yielded) + 1])
    /\ UNCHANGED <<pc, chord, noteVars, key, costVars, progVars>>

\* next(voicings): the generator is exhausted.
StopIteration ==
    /\ pc = "voiceChord"
    /\ Len(yielded) = Len(voiceChord(chord))
    /\ pc' = "done"
    /\ UNCHANGED <<chordVars, noteVars, key, costVars, progVars>>

NextChord == Yield \/ StopIteration

SpecChord == InitChord /\ [][NextChord]_vars

(***************************************************************************)
(* SpecCost: one call of cost on two voicings of chords of the key         *)
(***************************************************************************)

CostKeys == {"C", "G"}

CostNumerals == {"I", "I64", "V6", "V7"}

Range(s) == {s[j] : j \in 1..Len(s)}

\* The voicings voiceChord yields for the numerals in the key k.
VoicingsOf(k, numerals) ==
    UNION {Range(voiceChord(RomanNumeral(n, k))) : n \in numerals}

InitCost ==
    /\ pc = "cost"
    /\ key \in CostKeys
    /\ \E voicings \in {VoicingsOf(key, CostNumerals)} :
          chord1 \in voicings /\ chord2 \in voicings
    /\ terms = None /\ score = None
    /\ noteName = None /\ pitchRange = None /\ notes = None
    /\ chord = None /\ yielded = None
    /\ chordProgression = None /\ i = None /\ dp = None /\ cur = None
    /\ totalCost = None /\ ret = None /\ err = None

CostCall ==
    /\ pc = "cost"
    /\ terms' = CostTerms(key, chord1, chord2)
    /\ score' = SumTerms(terms')
    /\ pc' = "done"
    /\ UNCHANGED <<key, chord1, chord2, noteVars, chordVars, progVars>>

NextCost == CostCall

SpecCost == InitCost /\ [][NextCost]_vars

(***************************************************************************)
(* voiceProgression                                                        *)
(*                                                                         *)
(* The chords the generator yields are distinct objects, and the dicts of  *)
(* dp are keyed by object: the j-th chord (from 1) yielded for step i      *)
(* (from 0) is the object [i |-> i, j |-> j].  A dict is the sequence of   *)
(* its items in insertion order, which is the order of iteration; the item *)
(* of the j-th chord is [v |-> its pitches, cost |-> .., prev |-> ..].     *)
(* A float is Inf or Finite(n).                                            *)
(***************************************************************************)

Inf == <<>>
Finite(n) == <<n>>
Amount(x) == x[1]

\* a < b on floats
FloatLT(a, b) == a # Inf /\ (b = Inf \/ Amount(a) < Amount(b))

\* Faulty variant of FloatAdd: the cost so far is dropped.
FloatAddWithoutPrevious(a, n) == IF a = <<>> THEN <<>> ELSE <<n>>

\* pcost + cost(...)
FloatAdd(a, n) == IF a = Inf THEN Inf ELSE Finite(Amount(a) + n)

Object(step, j) == [i |-> step, j |-> j]

\* Faulty variant of Improves: <= for <.
ImprovesOrTies(ccost, best) == ccost = best.cost \/ FloatLT(ccost, best.cost)

\* Line 143: does ccost replace best?
Improves(ccost, best) == FloatLT(ccost, best.cost)

\* Lines 140-144: best after the items j, j + 1, ... of the dict prev of
\* step - 1 have been tried for the voicing v.
RECURSIVE BestFrom(_, _, _, _, _, _)
BestFrom(k, prev, step, v, best, j) ==
    IF j > Len(prev) THEN best
    ELSE LET ccost == FloatAdd(prev[j].cost, cost(k, prev[j].v, v))
         IN  IF Improves(ccost, best)
             THEN BestFrom(k, prev, step, v,
                           [cost |-> ccost, prev |-> Some(Object(step - 1, j))], j + 1)
             ELSE BestFrom(k, prev, step, v, best, j + 1)

\* Lines 135-145: the dict dp[step] built from the voicings of the step.
Layer(k, prev, step, voicings) ==
    LET item(v) ==
          IF step = 0 THEN << [v |-> v, cost |-> Finite(0), prev |-> Nothing] >>
          ELSE LET best == BestFrom(k, prev, step, v, [cost |-> Inf, prev |-> Nothing], 1)
               IN  << [v |-> v, cost |-> best.cost, prev |-> best.prev] >>
    IN  Flatten([j \in 1..Len(voicings) |-> item(voicings[j])])

\* Is the j-th item of d ahead of the best one so far?  min() keeps the first
\* of the items with the least key.
Smaller(d, j, best) == FloatLT(d[j].cost, d[best].cost)

\* Line 147: the position of min(d.items(), key=lambda p: p[1][0]).
RECURSIVE MinFrom(_, _, _)
MinFrom(d, best, j) ==
    IF j > Len(d) THEN best
    ELSE IF Smaller(d, j, best) THEN MinFrom(d, j, j + 1)
    ELSE MinFrom(d, best, j + 1)

\* Faulty variant of Reversed: the list is returned as built.
NotReversed(s) == s

\* list(reversed(ret))
RECURSIVE Reversed(_)
Reversed(s) == IF s = <<>> THEN <<>> ELSE Append(Reversed(Tail(s)), Head(s))

\* Progressions tried have at most MaxLen chords.
MaxLen == 3

ProgKeys == {"C"}

ProgNumerals == {"I64", "V43", "V65"}

RECURSIVE SeqsUpTo(_, _)
SeqsUpTo(S, n) ==
    IF n = 0 THEN {<<>>}
    ELSE LET shorter == SeqsUpTo(S, n - 1)
         IN  shorter \cup {Append(s, x) : s \in shorter, x \in S}

InitProg ==
    /\ pc = "loop"
    /\ key \in ProgKeys
    /\ chordProgression \in SeqsUpTo(ProgNumerals, MaxLen)
    /\ i = 0
    /\ dp = <<>>
    /\ cur = Nothing /\ totalCost = Inf /\ ret = <<>> /\ err = None
    /\ noteName = None /\ pitchRange = None /\ notes = None
    /\ chord = None /\ yielded = None
    /\ chord1 = None /\ chord2 = None /\ terms = None /\ score = None

\* Lines 132-145: one iteration of the loop over the progression.
ProgStep ==
    /\ pc = "loop"
    /\ i < Len(chordProgression)
    /\ \E voicings \in {voiceChord(RomanNumeral(chordProgression[i + 1], key))} :
          dp' = Append(dp, Layer(key, IF i = 0 THEN <<>> ELSE dp[i], i, voicings))
    /\ i' = i + 1
    /\ UNCHANGED <<pc, key, chordProgression, cur, totalCost, ret, err,
                   noteVars, chordVars, costVars>>

\* Lines 147-148: dp[-1] of an empty list raises IndexError, min() of an
\* empty dict raises ValueError.
Select ==
    /\ pc = "loop"
    /\ i = Len(chordProgression)
    /\ IF Len(dp) = 0
       THEN /\ err' = "IndexError" /\ pc' = "raised"
            /\ UNCHANGED <<cur, totalCost, i>>
       ELSE IF Len(dp[Len(dp)]) = 0
       THEN /\ err' = "ValueError" /\ pc' = "raised"
            /\ UNCHANGED <<cur, totalCost, i>>
       ELSE LET best == MinFrom(dp[Len(dp)], 1, 2)
            IN  /\ cur' = Some(Object(Len(dp) - 1, best))
                /\ totalCost' = dp[Len(dp)][best].cost
                /\ i' = Len(chordProgression) - 1
                /\ pc' = "backtrace"
                /\ err' = None
    /\ UNCHANGED <<key, chordProgression, dp, ret, noteVars, chordVars, costVars>>

\* Lines 151-153: one iteration of the backtrace; dp[i][cur] raises KeyError
\* when cur is not a key of dp[i].
Backtrace ==
    /\ pc = "backtrace"
    /\ i >= 0
    /\ ret' = Append(ret, cur)
    /\ IF cur = Nothing \/ Value(cur).i # i
       THEN /\ err' = "KeyError" /\ pc' = "raised"
            /\ UNCHANGED <<cur, i>>
       ELSE /\ cur' = dp[i + 1][Value(cur).j].prev
            /\ i' = i - 1
            /\ UNCHANGED <<pc, err>>
    /\ UNCHANGED <<key, chordProgression, dp, totalCost, noteVars, chordVars, costVars>>

\* Line 154.
Return ==
    /\ pc = "backtrace"
    /\ i < 0
    /\ ret' = Reversed(ret)
    /\ pc' = "done"
    /\ UNCHANGED <<key, chordProgression, i, dp, cur, totalCost, err,
                   noteVars, chordVars, costVars>>

NextProg == ProgStep \/ Select \/ Backtrace \/ Return

SpecProg == InitProg /\ [][NextProg]_vars

(***************************************************************************)
(* Properties of voiceNote (SpecNote)                                      *)
(***************************************************************************)

\* The pitches named name in the octaves music21 writes.
PitchesNamed(name) == {Pitch(name, o) : o \in 0..9}

PitchesOf(names) == UNION {PitchesNamed(name) : name \in names}

\* C4: voiceNote yields, in ascending octave order and each once, exactly
\* the pitches of the given name whose height lies in the range, bounds
\* included; none is omitted and none outside the range is yielded.
C4_YieldsExactlyThePitchesInRange ==
    pc = "done" =>
      /\ Range(notes) = {p \in PitchesNamed(noteName) :
                           /\ midi(pitchRange[1]) <= midi(p)
                           /\ midi(p) <= midi(pitchRange[2])}
      /\ \A a, b \in 1..Len(notes) : a < b => notes[a].octave < notes[b].octave

(***************************************************************************)
(* Properties of voiceChord (SpecChord)                                    *)
(***************************************************************************)

bass(v) == midi(v[1])
tenor(v) == midi(v[2])
alto(v) == midi(v[3])
soprano(v) == midi(v[4])

Within(h, range) == midi(range[1]) <= h /\ h <= midi(range[2])

\* C1: every voicing yielded has bass <= tenor <= alto <= soprano, at most
\* 12 semitones from tenor to alto and from alto to soprano, and every voice
\* inside its own range.
C1_VoicingsAreOrderedSpacedAndInRange ==
    \A n \in 1..Len(yielded) :
      LET v == yielded[n]
      IN  /\ Len(v) = 4
          /\ bass(v) <= tenor(v) /\ tenor(v) <= alto(v) /\ alto(v) <= soprano(v)
          /\ alto(v) - tenor(v) <= 12
          /\ soprano(v) - alto(v) <= 12
          /\ Within(soprano(v), SOPRANO_RANGE)
          /\ Within(alto(v), ALTO_RANGE)
          /\ Within(tenor(v), TENOR_RANGE)
          /\ Within(bass(v), BASS_RANGE)

\* The generator is exhausted and has yielded a voicing whose alto is a full
\* octave above the tenor, one whose soprano is a full octave above the alto,
\* and one whose soprano is at the top of its range.
C1_Witness ==
    /\ pc = "done"
    /\ \E n \in 1..Len(yielded) : alto(yielded[n]) - tenor(yielded[n]) = 12
    /\ \E n \in 1..Len(yielded) : soprano(yielded[n]) - alto(yielded[n]) = 12
    /\ \E n \in 1..Len(yielded) : yielded[n][4] = SOPRANO_RANGE[2]

\* C6: in every voicing yielded, the note at index 0 has the name of the
\* chord's bass (the first of chord.pitches), and no other voice is lower.
C6_BassKeepsTheChordsBass ==
    \A n \in 1..Len(yielded) :
      LET v == yielded[n]
      IN  /\ Name(v[1]) = chord.pitchNames[1]
          /\ \A m \in 2..Len(v) : midi(v[1]) <= midi(v[m])

\* A root-position tonic triad (four doublings, six permutations each) has
\* been voiced to the end, and in one of its voicings a voice above the bass
\* has the bass's name, in another the tenor sings the bass's very pitch.
C6_Witness ==
    /\ pc = "done"
    /\ chord.romanNumeral = "I" /\ chord.inversion = 0
    /\ \E n \in 1..Len(yielded) :
         Name(yielded[n][4]) = chord.pitchNames[1] /\ yielded[n][4] # yielded[n][1]
    /\ \E n \in 1..Len(yielded) : yielded[n][2] = yielded[n][1]

(***************************************************************************)
(* Properties of cost (SpecCost)                                           *)
(***************************************************************************)

\* C5: the cost of a chord followed by itself has no leap, no parallel
\* fifth penalty and no parallel octave penalty.
C5_RepeatedChordHasNoLeapOrParallelPenalty ==
    (pc = "done" /\ chord1 = chord2) =>
      terms.leap = 0 /\ terms.fifths = 0 /\ terms.octaves = 0

\* The leading tone of the key: the third of its dominant chord.
LeadingTone == ScaleName(key, 7)

\* The lowest voice (from 0) of chord1 that has the leading tone.
LeadingToneVoice ==
    CHOOSE m \in 0..3 :
      /\ Name(chord1[m + 1]) = LeadingTone
      /\ \A l \in 0..(m - 1) : Name(chord1[l + 1]) # LeadingTone

\* The motion of that voice, in semitones.
LeadingToneDelta == midi(chord2[LeadingToneVoice + 1]) - midi(chord1[LeadingToneVoice + 1])

\* chord1 is a chord on the dominant, chord2 a chord on the tonic.
FromDominantToTonic ==
    /\ Range(chord1) \subseteq PitchesOf({ScaleName(key, 5), ScaleName(key, 7),
                                          ScaleName(key, 2), ScaleName(key, 4)})
    /\ Range(chord2) \subseteq PitchesOf({ScaleName(key, 1), ScaleName(key, 3),
                                          ScaleName(key, 5)})

\* C7 as claimed: from dominant to tonic, 80 is added unless the voice
\* with the third of chord1 moves up 1 semitone, or down 4 semitones and is
\* not the bass (voice 0).
C7_Claimed_LeadingToneMayFallExceptInBass ==
    (pc = "done" /\ FromDominantToTonic) =>
      terms.leadingTone =
        IF LeadingToneDelta = 1 \/ (LeadingToneDelta = -4 /\ LeadingToneVoice # 0)
        THEN 0 ELSE 80

\* C7 as amended: from dominant to tonic, 80 is added unless the lowest
\* voice that has the third of chord1 moves up 1 semitone, or down 4
\* semitones and is not the soprano (voice 3): a fall of 4 semitones is
\* penalised in the soprano and is not in bass, tenor or alto.
C7_LeadingToneMayFallExceptInSoprano ==
    (pc = "done" /\ FromDominantToTonic) =>
      terms.leadingTone =
        IF LeadingToneDelta = 1 \/ (LeadingToneDelta = -4 /\ LeadingToneVoice # 3)
        THEN 0 ELSE 80

\* From dominant to tonic the bass has the leading tone and falls 4
\* semitones, and nothing was added for it.
C7_Witness ==
    /\ pc = "done" /\ FromDominantToTonic
    /\ LeadingToneVoice = 0 /\ LeadingToneDelta = -4
    /\ terms.leadingTone = 0

\* C8 as claimed: 50 is added, once, exactly when soprano(B) > alto(A) or
\* alto(B) < bass(A) or alto(B) > tenor(A) or tenor(B) < alto(A) or
\* tenor(B) > soprano(A) or bass(B) < tenor(A).
C8_Claimed_OverlapTest ==
    pc = "done" =>
      terms.overlap =
        IF \/ soprano(chord2) > alto(chord1)
           \/ alto(chord2) < bass(chord1) \/ alto(chord2) > tenor(chord1)
           \/ tenor(chord2) < alto(chord1) \/ tenor(chord2) > soprano(chord1)
           \/ bass(chord2) < tenor(chord1)
        THEN 50 ELSE 0

\* How many of the six tests of the overlap rule hold of A followed by B.
OverlapsCount(A, B) ==
    (IF bass(B) > tenor(A) THEN 1 ELSE 0) + (IF tenor(B) < bass(A) THEN 1 ELSE 0)
      + (IF tenor(B) > alto(A) THEN 1 ELSE 0) + (IF alto(B) < tenor(A) THEN 1 ELSE 0)
      + (IF alto(B) > soprano(A) THEN 1 ELSE 0) + (IF soprano(B) < alto(A) THEN 1 ELSE 0)

\* C8 as amended: 50 is added, once, exactly when bass(B) > tenor(A) or
\* tenor(B) < bass(A) or tenor(B) > alto(A) or alto(B) < tenor(A) or
\* alto(B) > soprano(A) or soprano(B) < alto(A): a voice of B leaves the band
\* between the neighbouring voices of A.
C8_OverlapTest ==
    pc = "done" =>
      terms.overlap = IF OverlapsCount(chord1, chord2) > 0 THEN 50 ELSE 0

\* Two of the six tests hold at once, and 50 was added.
C8_Witness ==
    pc = "done" /\ OverlapsCount(chord1, chord2) >= 2 /\ terms.overlap = 50

(***************************************************************************)
(* Properties of voiceProgression (SpecProg)                               *)
(***************************************************************************)

\* The voicings of the t-th chord (from 1) of the progression, as yielded.
VoicingsAt(t) == voiceChord(RomanNumeral(chordProgression[t], key))

\* C3: when the progression is empty or some chord of it has no voicing,
\* voiceProgression returns nothing and fails with
\* InfeasibleProgressionError, never with another error.
C3_InfeasibleProgressionIsReported ==
    (\/ Len(chordProgression) = 0
     \/ \E t \in 1..Len(chordProgression) : VoicingsAt(t) = <<>>) =>
      /\ pc # "done"
      /\ pc = "raised" => err = "InfeasibleProgressionError"

\* The chord the object x (a key of dp) stands for.
ChordOf(x) == dp[Value(x).i + 1][Value(x).j].v

\* cost(key, ret[0], ret[1]) + ... + cost(key, ret[t - 2], ret[t - 1])
RECURSIVE CostAlong(_)
CostAlong(t) ==
    IF t < 2 THEN 0
    ELSE CostAlong(t - 1) + cost(key, ChordOf(ret[t - 1]), ChordOf(ret[t]))

\* C9: the list returned has one chord per chord of the progression, in
\* order; the t-th is a voicing yielded for the t-th chord; each but the
\* first has its predecessor in the list as its predecessor in dp; and the
\* costs of the consecutive pairs add up to the cost reported.
C9_ReturnsTheBacktracedPathInOrder ==
    pc = "done" =>
      /\ Len(ret) = Len(chordProgression)
      /\ \A t \in 1..Len(ret) :
           /\ ret[t] # Nothing
           /\ Value(ret[t]).i = t - 1
           /\ Value(ret[t]).j \in 1..Len(VoicingsAt(t))
           /\ ChordOf(ret[t]) = VoicingsAt(t)[Value(ret[t]).j]
           /\ t > 1 => dp[t][Value(ret[t]).j].prev = ret[t - 1]
      /\ totalCost = Finite(CostAlong(Len(ret)))

\* A progression of three chords has been voiced at a cost above 0.
C9_Witness ==
    pc = "done" /\ Len(chordProgression) = 3 /\ Len(ret) = 3 /\ Amount(totalCost) > 0

\* The cumulative cost of reaching the voicing v of step t (from 1, t > 1)
\* through the j-th voicing of step t - 1.
Through(t, j, v) == Amount(dp[t - 1][j].cost) + cost(key, dp[t - 1][j].v, v)

\* C10: the predecessor stored for a voicing is the first voicing of the
\* step before, in the order yielded, that gives the least cumulative cost,
\* and the last chord returned is the first voicing of the last step with
\* the least total cost.
C10_TiesGoToTheFirstEncountered ==
    pc = "done" =>
      /\ \A t \in 2..Len(dp) : \A m \in 1..Len(dp[t]) :
           \E j \in 1..Len(dp[t - 1]) :
             /\ dp[t][m].prev = Some(Object(t - 2, j))
             /\ dp[t][m].cost = Finite(Through(t, j, dp[t][m].v))
             /\ \A l \in 1..Len(dp[t - 1]) :
                  /\ Through(t, l, dp[t][m].v) >= Amount(dp[t][m].cost)
                  /\ l < j => Through(t, l, dp[t][m].v) > Amount(dp[t][m].cost)
      /\ LET last == dp[Len(dp)]
             chosen == Value(ret[Len(ret)]).j
         IN  \A l \in 1..Len(last) :
               /\ Amount(last[l].cost) >= Amount(last[chosen].cost)
               /\ l < chosen => Amount(last[l].cost) > Amount(last[chosen].cost)

\* A progression of three chords has been voiced; the last chord returned
\* ties with a later voicing of the last step, and the stored predecessor
\* of some voicing ties with a later voicing of the step before.
C10_Witness ==
    /\ pc = "done" /\ Len(chordProgression) = 3
    /\ \E l \in (Value(ret[3]).j + 1)..Len(dp[3]) :
         dp[3][l].cost = dp[3][Value(ret[3]).j].cost
    /\ \E t \in 2..3 : \E m \in 1..Len(dp[t]) :
         \E l \in (Value(dp[t][m].prev).j + 1)..Len(dp[t - 1]) :
           Through(t, l, dp[t][m].v) = Amount(dp[t][m].cost)

\* The matrix of cost(key, u, v) for the voicings u of the t-th chord (from
\* 1) and v of the next one.
CostMatrix(t) ==
    LET us == VoicingsAt(t)
        vs == VoicingsAt(t + 1)
        row(u) == Flatten([v \in 1..Len(vs) |-> << cost(key, u, vs[v]) >>])
    IN  Flatten([u \in 1..Len(us) |-> << row(us[u]) >>])

\* The matrices of the consecutive chords of the progression.
CostMatrices ==
    Flatten([t \in 1..(Len(chordProgression) - 1) |-> << CostMatrix(t) >>])

\* The sums of the costs along every sequence of voicings, one per chord,
\* that starts with the sequence ending in the u-th voicing of the t-th
\* chord whose costs add up to sum.
RECURSIVE PathSums(_, _, _, _)
PathSums(M, t, u, sum) ==
    IF t > Len(M) THEN {sum}
    ELSE UNION {PathSums(M, t + 1, v, sum + M[t][u][v]) : v \in 1..Len(M[t][u])}

Least(S) == CHOOSE x \in S : \A y \in S : x <= y

\* C2: the cost reported is the least sum of transition costs over all the
\* sequences of one voicing per chord.
C2_ReportedCostIsTheLeastOverAllSequences ==
    pc = "done" =>
      \A M \in {CostMatrices} :
        totalCost = Finite(Least(UNION {PathSums(M, 1, u, 0) :
                                          u \in 1..Len(dp[1])}))

\* A progression of three chords has been voiced at a cost above 0 and some
\* sequence of voicings costs more.
C2_Witness ==
    /\ pc = "done" /\ Len(chordProgression) = 3 /\ Amount(totalCost) > 0
    /\ \E m \in 1..Len(dp[3]) : Amount(dp[3][m].cost) > Amount(totalCost)

====
